---- MODULE Spec2Model ----
(***************************************************************************)
(* Model of jisilu_profit_calculator.py: fee-rate parsing, the arbitrage   *)
(* profit calculation, the opportunity filter, the ranking functions and   *)
(* the per-account loop of main.                                           *)
(*                                                                         *)
(* Decimal values are records [k, m, x]:                                   *)
(*   k = "fin"  : the finite number m * 10^x, kept normalised (m carries   *)
(*                no trailing zero, zero is m = 0, x = 0), so that record  *)
(*                equality is Decimal's numeric equality;                  *)
(*   k = "nan"  : a quiet NaN (sign and payload do not affect any result); *)
(*   k = "none" : Python's None, the default of the computed fields.       *)
(* Strings are sequences of one-character strings.                         *)
(***************************************************************************)
EXTENDS Integers, Sequences, FiniteSets, TLC

VARIABLES
    fund, account, quantity,                        \* a FundItem, an Account, a share count
    parsed,                                         \* value returned by parse_apply_fee
    frame, returned, raised,                        \* calculate_arbitrage_profit: locals, result, exception
    funds, min_premium, mode, opportunities,        \* filter_arbitrage_opportunities
    ranked_in, descending, ranked_out,              \* sort_by_profit / sort_by_profit_rate
    heap, all_funds, opps, accounts, idx,           \* main: the objects, and lists of references to them
    account_funds, results,
    pc                                              \* position in the function being run

calcVars   == <<fund, account, quantity, parsed, frame, returned, raised>>
filterVars == <<funds, min_premium, mode, opportunities>>
sortVars   == <<ranked_in, descending, ranked_out>>
mainVars   == <<heap, all_funds, opps, accounts, idx, account_funds, results>>
vars       == <<calcVars, filterVars, sortVars, mainVars, pc>>

(***************************************************************************)
(* Bounds                                                                  *)
(***************************************************************************)
\* significant digits carried by the arithmetic context (Python carries 28;
\* only the division of the profit rate is inexact on the inputs used here)
Prec == 7
\* longest fee string enumerated for parse_apply_fee
MaxLen == 3
\* longest quote list given to the filter, the ranking functions and main
MaxFunds == 3
\* most accounts configured in main
MaxAccounts == 2

(***************************************************************************)
(* Decimal arithmetic                                                      *)
(***************************************************************************)
None == [k |-> "none", m |-> 0, x |-> 0]
NaN  == [k |-> "nan",  m |-> 0, x |-> 0]

Abs(n) == IF n < 0 THEN -n ELSE n

RECURSIVE Pow10(_)
Pow10(n) == IF n <= 0 THEN 1 ELSE 10 * Pow10(n - 1)

RECURSIVE Digits(_)
Digits(n) == IF n < 10 THEN 1 ELSE 1 + Digits(n \div 10)

RECURSIVE Norm(_, _)
Norm(m, x) ==
    IF m = 0 THEN [k |-> "fin", m |-> 0, x |-> 0]
    ELSE IF m % 10 = 0 THEN Norm(m \div 10, x + 1)
    ELSE [k |-> "fin", m |-> m, x |-> x]

Dec(m, x) == Norm(m, x)

IsFin(d) == d.k = "fin"
IsNaN(d) == d.k = "nan"

\* the context's rounding to Prec significant digits, ROUND_HALF_EVEN
Fix(m, x) ==
    LET a == Abs(m)
        s == IF m < 0 THEN -1 ELSE 1
        drop == Digits(a) - Prec
    IN  IF drop <= 0 THEN Norm(m, x)
        ELSE LET q == a \div Pow10(drop)
                 r == a % Pow10(drop)
                 half == 5 * Pow10(drop - 1)
                 up == r > half \/ (r = half /\ q % 2 = 1)
             IN  Norm(s * (IF up THEN q + 1 ELSE q), x + drop)

Min2(a, b) == IF a <= b THEN a ELSE b

\* the integer d.m * 10^(d.x - x), for x <= d.x
Scaled(d, x) == d.m * Pow10(d.x - x)

DecAdd(a, b) ==
    IF IsNaN(a) \/ IsNaN(b) THEN NaN
    ELSE LET x == Min2(a.x, b.x) IN Fix(Scaled(a, x) + Scaled(b, x), x)

DecNeg(a) == IF IsNaN(a) THEN NaN ELSE [a EXCEPT !.m = -a.m]

DecSub(a, b) == DecAdd(a, DecNeg(b))

DecMul(a, b) ==
    IF IsNaN(a) \/ IsNaN(b) THEN NaN
    ELSE Fix(a.m * b.m, a.x + b.x)

\* a < b, a > b on finite operands (an ordering comparison with a NaN
\* operand signals InvalidOperation; the callers model that)
DecLt(a, b) == LET x == Min2(a.x, b.x) IN Scaled(a, x) < Scaled(b, x)
DecGt(a, b) == DecLt(b, a)
DecGe(a, b) == ~DecLt(a, b)

DecAbs(a) == IF IsNaN(a) THEN NaN ELSE [a EXCEPT !.m = Abs(a.m)]

\* long division n / d: the quotient's digits are produced until the
\* division is exact or Prec + 1 digits are known; a non-zero remainder is
\* then recorded in the guard digit so that Fix rounds correctly
RECURSIVE DivDigits(_, _, _, _)
DivDigits(q, r, d, x) ==
    IF r = 0 THEN [q |-> q, x |-> x]
    ELSE IF q # 0 /\ Digits(q) > Prec
         THEN [q |-> IF q % 5 = 0 THEN q + 1 ELSE q, x |-> x]
    ELSE DivDigits(q * 10 + (r * 10) \div d, (r * 10) % d, d, x - 1)

\* a / b for finite b > 0
DecDiv(a, b) ==
    IF IsNaN(a) \/ IsNaN(b) THEN NaN
    ELSE LET n == Abs(a.m)
             s == IF a.m < 0 THEN -1 ELSE 1
             r == DivDigits(n \div b.m, n % b.m, b.m, a.x - b.x)
         IN  Fix(s * r.q, r.x)

\* the floor added on top of the percentage commission
Max2Sum(a, b) == DecAdd(a, b)

\* Python's max(a, b): b only when b > a
Max2(a, b) == IF DecGt(b, a) THEN b ELSE a

(***************************************************************************)
(* Strings and the Decimal constructor                                     *)
(***************************************************************************)
Chars == {"0", "1", "2", ".", "%", " ", "-", "N", "a"}

DigitVal(c) == CASE c = "0" -> 0 [] c = "1" -> 1 [] c = "2" -> 2
                 [] c = "3" -> 3 [] c = "4" -> 4 [] c = "5" -> 5
                 [] c = "6" -> 6 [] c = "7" -> 7 [] c = "8" -> 8
                 [] c = "9" -> 9 [] OTHER -> -1

IsDigit(c) == DigitVal(c) >= 0

RECURSIVE LStrip(_)
LStrip(s) == IF s # <<>> /\ Head(s) = " " THEN LStrip(Tail(s)) ELSE s

RECURSIVE RStrip(_)
RStrip(s) == IF s # <<>> /\ s[Len(s)] = " " THEN RStrip(SubSeq(s, 1, Len(s) - 1)) ELSE s

\* str.strip()
Strip(s) == RStrip(LStrip(s))

\* '%' in s
HasPercent(s) == \E i \in 1..Len(s) : s[i] = "%"

\* s.replace('%', '')
RemovePercent(s) == SelectSeq(s, LAMBDA c : c # "%")

RECURSIVE IntOf(_)
IntOf(s) == IF s = <<>> THEN 0 ELSE 10 * IntOf(SubSeq(s, 1, Len(s) - 1)) + DigitVal(s[Len(s)])

AllDigits(s) == \A i \in 1..Len(s) : IsDigit(s[i])

\* Decimal(s): the constructor strips surrounding whitespace and accepts an
\* optional sign followed by digits with at most one point, or by NaN and
\* optional payload digits; anything else raises ("invalid")
DecimalCtor(s) ==
    LET t == Strip(s)
        neg == t # <<>> /\ Head(t) = "-"
        body == IF neg THEN Tail(t) ELSE t
        digs == SelectSeq(body, IsDigit)
        points == SelectSeq(body, LAMBDA c : c = ".")
        pointAt == CHOOSE i \in 1..Len(body) : body[i] = "."
        fracLen == IF points = <<>> THEN 0 ELSE Len(body) - pointAt
        val == IntOf(digs)
    IN  IF Len(body) >= 3 /\ SubSeq(body, 1, 3) = <<"N", "a", "N">>
           /\ AllDigits(SubSeq(body, 4, Len(body)))
        THEN [ok |-> TRUE, v |-> NaN]
        ELSE IF digs # <<>> /\ Len(points) <= 1 /\ Len(digs) + Len(points) = Len(body)
        THEN [ok |-> TRUE, v |-> Dec(IF neg THEN -val ELSE val, -fracLen)]
        ELSE [ok |-> FALSE, v |-> None]

(***************************************************************************)
(* FundItem.parse_apply_fee                                                *)
(***************************************************************************)
\* the default taken as a percentage figure
DefaultFeePercent == Dec(12, -2)

DefaultFee == Dec(12, -4)
Hundred == Dec(100, 0)

\* every field divided by 100, with or without a percent marker
parse_apply_fee_AlwaysDivides(fee) ==
    LET d == DecimalCtor(RemovePercent(Strip(fee)))
    IN  IF ~d.ok THEN DefaultFee ELSE DecDiv(d.v, Hundred)

\* the percent marker stripped but the value not divided
parse_apply_fee_NoDivide(fee) ==
    LET d == DecimalCtor(RemovePercent(Strip(fee)))
    IN  IF ~d.ok THEN DefaultFee ELSE d.v

parse_apply_fee(fee) ==
    LET fee_str == Strip(fee)
        d == DecimalCtor(IF HasPercent(fee_str) THEN RemovePercent(fee_str) ELSE fee_str)
    IN  IF ~d.ok THEN DefaultFee
        ELSE IF HasPercent(fee_str) THEN DecDiv(d.v, Hundred)
        ELSE d.v

(***************************************************************************)
(* format_decimal: the quantized value (the function returns its text)     *)
(***************************************************************************)
Quantize(d, places) ==
    IF ~IsFin(d) \/ d.x >= -places THEN d
    ELSE LET drop == -places - d.x
             a == Abs(d.m)
             s == IF d.m < 0 THEN -1 ELSE 1
             q == a \div Pow10(drop)
             r == a % Pow10(drop)
         IN  Norm(s * (IF r >= 5 * Pow10(drop - 1) THEN q + 1 ELSE q), -places)

(***************************************************************************)
(* Account, FundItem                                                       *)
(***************************************************************************)
Account(name, commission_rate, min_commission, transfer_fee) ==
    [name |-> name, commission_rate |-> commission_rate,
     min_commission |-> min_commission, transfer_fee |-> transfer_fee]

\* the fields the calculation, the filter and the ranking read or write;
\* the four computed fields default to None
FundItem(fund_id, price, fund_nav, discount_rt, fee, apply_status) ==
    [fund_id |-> fund_id, price |-> price, fund_nav |-> fund_nav,
     discount_rt |-> discount_rt, apply_fee |-> fee, apply_status |-> apply_status,
     subscribe_fee_rate |-> None, estimated_sell_price |-> None,
     profit |-> None, profit_rate |-> None]

(***************************************************************************)
(* FundItem.calculate_arbitrage_profit                                     *)
(***************************************************************************)
NoFrame ==
    [called |-> FALSE, subscribe_amount |-> None, subscribe_fee |-> None,
     actual_cost |-> None, sell_amount |-> None, sell_commission |-> None]

\* the frame of a call: self, the arguments and the locals, statement by
\* statement; raised is set when InvalidOperation leaves the call
Enter(self, acct, qty) ==
    [self |-> self, account |-> acct, quantity |-> Dec(qty, 0),
     locals |-> [NoFrame EXCEPT !.called = TRUE], ret |-> None, raised |-> FALSE]

\* self.subscribe_fee_rate = self.parse_apply_fee()
SetFeeRate(e) == [e EXCEPT !.self.subscribe_fee_rate = parse_apply_fee(e.self.apply_fee)]

\* subscribe_amount = self.fund_nav * quantity
SetSubscribeAmount(e) ==
    [e EXCEPT !.locals.subscribe_amount = DecMul(e.self.fund_nav, e.quantity)]

\* subscribe_fee = subscribe_amount * self.subscribe_fee_rate
SetSubscribeFee(e) ==
    [e EXCEPT !.locals.subscribe_fee = DecMul(e.locals.subscribe_amount, e.self.subscribe_fee_rate)]

\* actual_cost = subscribe_amount + subscribe_fee
SetActualCost(e) ==
    [e EXCEPT !.locals.actual_cost = DecAdd(e.locals.subscribe_amount, e.locals.subscribe_fee)]

\* sell_amount = self.price * quantity
SetSellAmount(e) == [e EXCEPT !.locals.sell_amount = DecMul(e.self.price, e.quantity)]

\* sell_commission = max(sell_amount * account.commission_rate, account.min_commission)
SetSellCommission(e) ==
    [e EXCEPT !.locals.sell_commission =
                  Max2(DecMul(e.locals.sell_amount, e.account.commission_rate),
                       e.account.min_commission)]

\* self.profit = sell_amount - actual_cost - sell_commission - account.transfer_fee
\* self.estimated_sell_price = self.price
SetProfit(e) ==
    [e EXCEPT !.self.profit = DecSub(DecSub(DecSub(e.locals.sell_amount, e.locals.actual_cost),
                                            e.locals.sell_commission),
                                     e.account.transfer_fee),
              !.self.estimated_sell_price = e.self.price]

\* if actual_cost > 0: profit_rate = profit / actual_cost * 100, else 0;
\* return self.profit.  The comparison signals InvalidOperation when
\* actual_cost is NaN, and the call ends there.
SetProfitRateAndReturn(e) ==
    IF IsNaN(e.locals.actual_cost) THEN [e EXCEPT !.raised = TRUE]
    ELSE [e EXCEPT !.self.profit_rate =
                       IF DecGt(e.locals.actual_cost, Dec(0, 0))
                       THEN DecMul(DecDiv(e.self.profit, e.locals.actual_cost), Hundred)
                       ELSE Dec(0, 0),
                   !.ret = e.self.profit]

\* the call's effect: the fund as it leaves it, the locals, the returned
\* value, and whether InvalidOperation propagated out of the call
Leave(e) == [fund |-> e.self, frame |-> e.locals, ret |-> e.ret, raised |-> e.raised]

calculate_arbitrage_profit(self, acct, qty) ==
    Leave(SetProfitRateAndReturn(SetProfit(SetSellCommission(SetSellAmount(
        SetActualCost(SetSubscribeFee(SetSubscribeAmount(SetFeeRate(
            Enter(self, acct, qty))))))))))

(***************************************************************************)
(* Inputs                                                                  *)
(***************************************************************************)
\* fee fields as the data source delivers them, well-formed and not
FeeFields ==
    { <<"0", ".", "1", "2", "%">>, <<"0", ".", "0", "0", "1", "2">>,
      <<"1", ".", "5", "%">>, <<"-", "2">>, <<>>, <<"a", "b", "c">>,
      <<"N", "a", "N">> }

Prices == {Dec(105, -2), Dec(3, 0), Dec(9, -1)}
Navs == {Dec(0, 0), Dec(1, 0), Dec(15, -1)}
Quantities == {1, 300, 10000}

\* the two accounts configured in main, and one with a transfer fee
AccountA == Account("A", Dec(1, -4), Dec(5, 0), Dec(0, 0))
AccountB == Account("B", Dec(3, -4), Dec(5, 0), Dec(0, 0))
AccountC == Account("C", Dec(1, -3), Dec(2, 0), Dec(1, 0))
Accounts == {AccountA, AccountB, AccountC}

\* status strings, one element per character: kai fang = open,
\* xian da e = large amounts limited, zan ting = suspended, shen gou = subscription
StatusOpen == <<"kai", "fang", "shen", "gou">>
StatusLimited == <<"xian", "da", "e">>
StatusSuspended == <<"zan", "ting", "shen", "gou">>
StatusMissing == <<>>

\* the quote of the worked example, with a given fee field
ExampleFund(fee) == FundItem("161226", Dec(105, -2), Dec(1, 0), Dec(-5, 0), fee, StatusOpen)

IdleFilter == funds = <<>> /\ min_premium = Dec(0, 0) /\ mode = "premium" /\ opportunities = <<>>
IdleSort == ranked_in = <<>> /\ descending = TRUE /\ ranked_out = <<>>
IdleMain ==
    /\ heap = <<>> /\ all_funds = <<>> /\ opps = <<>> /\ accounts = <<>> /\ idx = 0
    /\ account_funds = <<>> /\ results = <<>>
IdleCalc ==
    /\ fund = ExampleFund(<<>>) /\ account = AccountA /\ quantity = 1
    /\ parsed = None /\ frame = NoFrame /\ returned = None /\ raised = FALSE

(***************************************************************************)
(* One FundItem: parse_apply_fee and calculate_arbitrage_profit            *)
(***************************************************************************)
InitFund ==
    /\ \/ \E n \in 0..MaxLen : \E fee \in [1..n -> Chars] \cup FeeFields :
             \* every string of at most MaxLen characters, in the worked example's quote
             /\ fund = ExampleFund(fee)
             /\ account = AccountB
             /\ quantity = 10000
       \/ \E fee \in FeeFields, p \in Prices, n \in Navs :
             /\ fund = FundItem("501018", p, n, Dec(-1, 0), fee, StatusOpen)
             /\ account \in Accounts
             /\ quantity \in Quantities
    /\ parsed = None /\ frame = NoFrame /\ returned = None /\ raised = FALSE
    /\ IdleFilter /\ IdleSort /\ IdleMain /\ pc = "fund"

ParseFee ==
    /\ parsed' = parse_apply_fee(fund.apply_fee)
    /\ UNCHANGED <<fund, account, quantity, frame, returned, raised>>
    /\ UNCHANGED <<filterVars, sortVars, mainVars, pc>>

Calculate ==
    /\ \E r \in {calculate_arbitrage_profit(fund, account, quantity)} :
          /\ fund' = r.fund
          /\ frame' = r.frame
          /\ returned' = r.ret
          /\ raised' = r.raised
    /\ UNCHANGED <<account, quantity, parsed>>
    /\ UNCHANGED <<filterVars, sortVars, mainVars, pc>>

NextFund == ParseFee \/ Calculate

SpecFund == InitFund /\ [][NextFund]_vars

(***************************************************************************)
(* filter_arbitrage_opportunities                                          *)
(***************************************************************************)
\* sub in s, for strings
Contains(sub, s) ==
    \E i \in 0..(Len(s) - Len(sub)) : SubSeq(s, i + 1, i + Len(sub)) = sub

\* the gate tests that a status is present, not what it says
Eligible_NonEmpty(apply_status) == apply_status # <<>>

\* '开放' in apply_status or '限大额' in apply_status
Eligible(apply_status) ==
    Contains(<<"kai", "fang">>, apply_status) \/ Contains(<<"xian", "da", "e">>, apply_status)

\* the threshold taken as exclusive
PremiumHit_Strict(f, min) ==
    DecLt(f.discount_rt, Dec(0, 0)) /\ DecGt(DecAbs(f.discount_rt), min)

\* discount_rt < 0 and abs(discount_rt) >= min_premium
PremiumHit(f, min) ==
    DecLt(f.discount_rt, Dec(0, 0)) /\ DecGe(DecAbs(f.discount_rt), min)

\* discount_rt > 0 and discount_rt >= min_premium
DiscountHit(f, min) ==
    DecGt(f.discount_rt, Dec(0, 0)) /\ DecGe(f.discount_rt, min)

\* the loop over funds[i..]: the positions whose fund is appended
RECURSIVE FilterFrom(_, _, _, _)
FilterFrom(fs, i, min, md) ==
    IF i > Len(fs) THEN <<>>
    ELSE LET f == fs[i]
             take == /\ Eligible(f.apply_status)
                     /\ \/ md = "premium" /\ PremiumHit(f, min)
                        \/ md = "discount" /\ DiscountHit(f, min)
         IN  (IF take THEN <<i>> ELSE <<>>) \o FilterFrom(fs, i + 1, min, md)

\* the returned list holds the selected elements of funds themselves
filter_arbitrage_opportunities(fs, min, md) ==
    LET kept == FilterFrom(fs, 1, min, md)
    IN  [i \in 1..Len(kept) |-> fs[kept[i]]]

Statuses == {StatusOpen, StatusLimited, StatusSuspended, StatusMissing}
Divergences == {Dec(-2, 0), Dec(-1, 0), Dec(0, 0), Dec(1, 0)}
Thresholds == {Dec(0, 0), Dec(1, 0)}
Modes == {"premium", "discount"}

\* quote lists; the fund identifier of a quote is its position in the snapshot
InitFilter ==
    /\ \E n \in 0..MaxFunds : \E d \in [1..n -> Divergences], st \in [1..n -> Statuses] :
          funds = [i \in 1..n |-> FundItem(ToString(i), Dec(1, 0), Dec(1, 0), d[i], <<"0", "%">>, st[i])]
    /\ min_premium \in Thresholds
    /\ mode \in Modes
    /\ opportunities = <<>>
    /\ IdleCalc /\ IdleSort /\ IdleMain /\ pc = "filter"

Filter ==
    /\ pc = "filter"
    /\ opportunities' = filter_arbitrage_opportunities(funds, min_premium, mode)
    /\ pc' = "filtered"
    /\ UNCHANGED <<funds, min_premium, mode>>
    /\ UNCHANGED <<calcVars, sortVars, mainVars>>

NextFilter == Filter

SpecFilter == InitFilter /\ [][NextFilter]_vars

(***************************************************************************)
(* sort_by_profit, sort_by_profit_rate                                     *)
(***************************************************************************)
Reverse(s) == [i \in 1..Len(s) |-> s[Len(s) + 1 - i]]

\* key=lambda x: x.profit, key=lambda x: x.profit_rate
Key(f, metric) == IF metric = "profit" THEN f.profit ELSE f.profit_rate

\* e placed into the ascending sequence s behind every element not above it
RECURSIVE Insert(_, _, _)
Insert(s, e, metric) ==
    IF s = <<>> THEN <<e>>
    ELSE IF DecLt(Key(e, metric), Key(Head(s), metric)) THEN <<e>> \o s
    ELSE <<Head(s)>> \o Insert(Tail(s), e, metric)

\* a stable ascending sort
RECURSIVE StableAsc(_, _)
StableAsc(s, metric) ==
    IF s = <<>> THEN <<>>
    ELSE Insert(StableAsc(SubSeq(s, 1, Len(s) - 1), metric), s[Len(s)], metric)

\* the ascending result turned around
Sorted_ReversedAfter(s, metric, reverse) ==
    IF reverse THEN Reverse(StableAsc(s, metric)) ELSE StableAsc(s, metric)

\* sorted(s, key=..., reverse=reverse): a reverse sort keeps equal elements
\* in their original order (the list is reversed before and after sorting)
Sorted(s, metric, reverse) ==
    IF reverse THEN Reverse(StableAsc(Reverse(s), metric)) ELSE StableAsc(s, metric)


sort_by_profit(fs, desc) == Sorted(fs, "profit", desc)

sort_by_profit_rate(fs, desc) == Sorted(fs, "profit_rate", desc)

Profits == {Dec(-5, 0), Dec(1, 0), Dec(483, 0)}
ProfitRates == {Dec(0, 0), Dec(48, -1)}

Computed(f, profit, profit_rate) ==
    [f EXCEPT !.subscribe_fee_rate = Dec(12, -4), !.estimated_sell_price = f.price,
              !.profit = profit, !.profit_rate = profit_rate]

\* lists of evaluated quotes, identified by their position
InitSort ==
    /\ \E n \in 0..MaxFunds : \E p \in [1..n -> Profits], r \in [1..n -> ProfitRates] :
          ranked_in = [i \in 1..n |-> Computed(FundItem(ToString(i), Dec(1, 0), Dec(1, 0), Dec(-1, 0),
                                                         <<"0", "%">>, StatusOpen), p[i], r[i])]
    /\ descending \in BOOLEAN
    /\ ranked_out = <<>>
    /\ IdleCalc /\ IdleFilter /\ IdleMain /\ pc = "sort"

SortByProfit ==
    /\ pc = "sort"
    /\ ranked_out' = sort_by_profit(ranked_in, descending)
    /\ pc' = "sorted_by_profit"
    /\ UNCHANGED <<ranked_in, descending>>
    /\ UNCHANGED <<calcVars, filterVars, mainVars>>

SortByProfitRate ==
    /\ pc = "sort"
    /\ ranked_out' = sort_by_profit_rate(ranked_in, descending)
    /\ pc' = "sorted_by_profit_rate"
    /\ UNCHANGED <<ranked_in, descending>>
    /\ UNCHANGED <<calcVars, filterVars, mainVars>>

NextSort == SortByProfit \/ SortByProfitRate

SpecSort == InitSort /\ [][NextSort]_vars

(***************************************************************************)
(* main: objects live in heap, lists hold references (positions in heap)   *)
(***************************************************************************)
MIN_PREMIUM_RATE == Dec(0, 0)
ARBITRAGE_MODE == "premium"
QUANTITY == 10000

Deref(h, refs) == [i \in 1..Len(refs) |-> h[refs[i]]]

\* the list bound to a second name: no object is copied
deepcopy_Alias(h, refs) == [heap |-> h, refs |-> refs]

\* copy.deepcopy(refs): a new list of new objects equal to the old ones
deepcopy(h, refs) ==
    [heap |-> h \o Deref(h, refs),
     refs |-> [i \in 1..Len(refs) |-> Len(h) + i]]

\* calculate_all_profits from position i on: each fund is evaluated in
\* place; an exception leaves the loop with the funds before it evaluated
RECURSIVE CalcAllFrom(_, _, _, _, _)
\* the loop after the call for position i has ended with outcome r
AfterCall(h, refs, i, acct, qty, r) ==
    IF r.raised THEN [heap |-> [h EXCEPT ![refs[i]] = r.fund], raised |-> TRUE]
    ELSE CalcAllFrom([h EXCEPT ![refs[i]] = r.fund], refs, i + 1, acct, qty)

CalcAllFrom(h, refs, i, acct, qty) ==
    IF i > Len(refs) THEN [heap |-> h, raised |-> FALSE]
    ELSE AfterCall(h, refs, i, acct, qty, calculate_arbitrage_profit(h[refs[i]], acct, qty))

calculate_all_profits(h, refs, acct, qty) == CalcAllFrom(h, refs, 1, acct, qty)

\* the reference in refs of the object f
RefOf(h, refs, f) == refs[CHOOSE i \in 1..Len(refs) : h[refs[i]] = f]

\* the quotes a snapshot may hold
MainQuote(id, kind) ==
    CASE kind = 1 -> FundItem(id, Dec(105, -2), Dec(1, 0), Dec(-5, 0), <<"0", ".", "1", "2", "%">>, StatusOpen)
      [] kind = 2 -> FundItem(id, Dec(3, 0), Dec(1, 0), Dec(-200, 0), <<"1", ".", "5", "%">>, StatusLimited)
      [] kind = 3 -> FundItem(id, Dec(3, 0), Dec(15, -1), Dec(-100, 0), <<>>, StatusSuspended)
      [] kind = 4 -> FundItem(id, Dec(9, -1), Dec(1, 0), Dec(10, 0), <<"0", ".", "1", "2", "%">>, StatusOpen)
      [] OTHER    -> FundItem(id, Dec(105, -2), Dec(1, 0), Dec(-5, 0), <<"N", "a", "N">>, StatusOpen)

\* what fetch_lof_data returned, and the configured accounts
InitMain ==
    /\ \E n \in 0..MaxFunds : \E k \in [1..n -> 1..5] :
          heap = [i \in 1..n |-> MainQuote(ToString(i), k[i])]
    /\ all_funds = [i \in 1..Len(heap) |-> i]
    /\ \E n \in 1..MaxAccounts : accounts \in [1..n -> Accounts]
    /\ opps = <<>> /\ idx = 0 /\ account_funds = <<>> /\ results = <<>>
    /\ IdleCalc /\ IdleFilter /\ IdleSort /\ pc = "fetched"

\* if not all_funds: return
MainNoData ==
    /\ pc = "fetched" /\ all_funds = <<>>
    /\ pc' = "done"
    /\ UNCHANGED <<calcVars, filterVars, sortVars, mainVars>>

\* opportunities = filter_arbitrage_opportunities(all_funds, ...); return if empty
MainFilter ==
    /\ pc = "fetched" /\ all_funds # <<>>
    /\ \E kept \in {FilterFrom(Deref(heap, all_funds), 1, MIN_PREMIUM_RATE, ARBITRAGE_MODE)} :
          /\ opps' = [i \in 1..Len(kept) |-> all_funds[kept[i]]]
          /\ pc' = IF kept = <<>> THEN "done" ELSE "loop"
    /\ UNCHANGED <<heap, all_funds, accounts, idx, account_funds, results>>
    /\ UNCHANGED <<calcVars, filterVars, sortVars>>

\* for account in accounts: account_funds = copy.deepcopy(opportunities)
LoopCopy ==
    /\ pc = "loop" /\ idx < Len(accounts)
    /\ \E c \in {deepcopy(heap, opps)} :
          /\ heap' = c.heap
          /\ account_funds' = c.refs
    /\ idx' = idx + 1
    /\ pc' = "calc"
    /\ UNCHANGED <<all_funds, opps, accounts, results>>
    /\ UNCHANGED <<calcVars, filterVars, sortVars>>

\* calculate_all_profits(account_funds, account, QUANTITY)
LoopCalc ==
    /\ pc = "calc"
    /\ \E r \in {calculate_all_profits(heap, account_funds, accounts[idx], QUANTITY)} :
          /\ heap' = r.heap
          /\ pc' = IF r.raised THEN "raised" ELSE "sort"
    /\ UNCHANGED <<all_funds, opps, accounts, idx, account_funds, results>>
    /\ UNCHANGED <<calcVars, filterVars, sortVars>>

\* sorted_funds = sort_by_profit(account_funds, descending=True), handed to
\* print_results, print_summary_format and export_to_excel
LoopSort ==
    /\ pc = "sort"
    /\ \E ranked \in {sort_by_profit(Deref(heap, account_funds), TRUE)} :
          results' = Append(results, [i \in 1..Len(ranked) |-> RefOf(heap, account_funds, ranked[i])])
    /\ pc' = "loop"
    /\ UNCHANGED <<heap, all_funds, opps, accounts, idx, account_funds>>
    /\ UNCHANGED <<calcVars, filterVars, sortVars>>

\* the accounts are exhausted
LoopEnd ==
    /\ pc = "loop" /\ idx = Len(accounts)
    /\ pc' = "done"
    /\ UNCHANGED <<calcVars, filterVars, sortVars, mainVars>>

Next == MainNoData \/ MainFilter \/ LoopCopy \/ LoopCalc \/ LoopSort \/ LoopEnd

Spec == InitMain /\ [][Next]_vars

(***************************************************************************)
(* Properties of one FundItem                                              *)
(***************************************************************************)
Zero == Dec(0, 0)
QtyDec == Dec(quantity, 0)
PctCommission == DecMul(DecMul(fund.price, QtyDec), account.commission_rate)

\* C2: the sale commission used by calculate_arbitrage_profit is the larger
\* of price * quantity * commission_rate and the account's minimum
\* commission: it is one of the two, it is below neither, and for a
\* single share with a minimum of 5 it is 5.
C2_CommissionIsMax ==
    frame.called =>
        /\ DecGe(frame.sell_commission, account.min_commission)
        /\ DecGe(frame.sell_commission, PctCommission)
        /\ frame.sell_commission \in {PctCommission, account.min_commission}
        /\ (quantity = 1 /\ account.min_commission = Dec(5, 0))
              => frame.sell_commission = Dec(5, 0)

C2_Witness ==
    /\ frame.called /\ quantity = 1
    /\ DecGt(PctCommission, Zero)
    /\ frame.sell_commission = Dec(5, 0)

\* C3: every call of calculate_arbitrage_profit returns, and the value it
\* returns is the stored profit, which is saleAmount - actualCost -
\* saleCommission - transferFee with subscriptionAmount = nav * quantity,
\* subscriptionFee = subscriptionAmount * parsed fee rate, actualCost their
\* sum and saleAmount = price * quantity.
C3_ProfitFormula ==
    frame.called =>
        /\ ~raised
        /\ returned = fund.profit
        /\ frame.subscribe_amount = DecMul(fund.fund_nav, QtyDec)
        /\ frame.subscribe_fee = DecMul(frame.subscribe_amount, fund.subscribe_fee_rate)
        /\ frame.actual_cost = DecAdd(frame.subscribe_amount, frame.subscribe_fee)
        /\ frame.sell_amount = DecMul(fund.price, QtyDec)
        /\ DecAdd(DecAdd(DecAdd(fund.profit, account.transfer_fee),
                         frame.sell_commission), frame.actual_cost) = frame.sell_amount

IsExample ==
    /\ fund.fund_nav = Dec(1, 0) /\ fund.price = Dec(105, -2)
    /\ fund.apply_fee = <<"0", ".", "1", "2", "%">>
    /\ quantity = 10000
    /\ account.commission_rate = Dec(3, -4) /\ account.min_commission = Dec(5, 0)
    /\ account.transfer_fee = Zero

ExampleAmounts ==
    /\ ~raised
    /\ frame.subscribe_amount = Dec(10000, 0)
    /\ frame.subscribe_fee = Dec(12, 0)
    /\ frame.actual_cost = Dec(10012, 0)
    /\ frame.sell_amount = Dec(10500, 0)
    /\ frame.sell_commission = Dec(5, 0)
    /\ fund.profit = Dec(483, 0)

\* C4 as stated: the worked example yields the listed amounts and a profit
\* rate that is 4.8262 percent to four decimals.
C4_ExampleAsStated ==
    (IsExample /\ frame.called) =>
        /\ ExampleAmounts
        /\ Quantize(fund.profit_rate, 4) = Dec(48262, -4)

\* C4 amended: the worked example yields the listed amounts and a profit
\* rate that is 4.8242 percent to four decimals (483 / 10012 * 100).
C4_Example ==
    (IsExample /\ frame.called) =>
        /\ ExampleAmounts
        /\ Quantize(fund.profit_rate, 4) = Dec(48242, -4)

C4_Witness == IsExample /\ frame.called /\ returned = Dec(483, 0)

\* C5: for a quote whose net asset value is 0 the call completes without an
\* error and the profit rate is exactly 0, whatever the fee field; when
\* actualCost > 0 the profit rate is profit / actualCost * 100.
C5_ZeroNavRate ==
    frame.called =>
        /\ fund.fund_nav = Zero => (~raised /\ fund.profit_rate = Zero)
        /\ (IsFin(frame.actual_cost) /\ DecGt(frame.actual_cost, Zero))
              => fund.profit_rate = DecMul(DecDiv(fund.profit, frame.actual_cost), Hundred)

\* a plain numeral: digits with at most one point and at least one digit
IsNumeral(s) ==
    /\ \A i \in 1..Len(s) : IsDigit(s[i]) \/ s[i] = "."
    /\ Len(SelectSeq(s, LAMBDA c : c = ".")) <= 1
    /\ \E i \in 1..Len(s) : IsDigit(s[i])

\* the numeral for X / 100: the point of X moved two places to the left
FracString(X) ==
    LET pointAt == IF \E i \in 1..Len(X) : X[i] = "."
                   THEN CHOOSE i \in 1..Len(X) : X[i] = "." ELSE Len(X) + 1
        int == <<"0", "0">> \o SubSeq(X, 1, pointAt - 1)
        frac == SubSeq(X, pointAt + 1, Len(X))
    IN  SubSeq(int, 1, Len(int) - 2) \o <<".">> \o SubSeq(int, Len(int) - 1, Len(int)) \o frac

\* the fee field is a numeral X followed by a percent marker, possibly
\* surrounded by whitespace
PercentOf(fee) == SubSeq(Strip(fee), 1, Len(Strip(fee)) - 1)
IsPercentForm(fee) ==
    /\ Strip(fee) # <<>>
    /\ Strip(fee)[Len(Strip(fee))] = "%"
    /\ IsNumeral(PercentOf(fee))

\* C9: a trimmed field "X%" parses to the same value as the bare fraction
\* for X / 100, and a bare fraction is taken as it stands: the bare numeral
\* X parses to 100 times the bare numeral for X / 100.
C9_PercentEqualsFraction ==
    (parsed # None /\ IsPercentForm(fund.apply_fee)) =>
        LET X == PercentOf(fund.apply_fee)
        IN  /\ parsed = parse_apply_fee(FracString(X))
            /\ parse_apply_fee(X) = DecMul(parse_apply_fee(FracString(X)), Hundred)
            /\ parse_apply_fee(<<" ">> \o FracString(X) \o <<" ">>) = parsed

C9_Witness ==
    /\ fund.apply_fee = <<" ", "2", "%">>
    /\ parsed = Dec(2, -2)

\* Decimal rejects the trimmed field once its percent markers are removed
Unparseable(fee) == ~DecimalCtor(RemovePercent(Strip(fee))).ok

WithFee(f, fee) == FundItem(f.fund_id, f.price, f.fund_nav, f.discount_rt, fee, f.apply_status)

Whole(d) == d.m * Pow10(d.x)

\* statuses that say the channel is open, or open with large amounts limited
OpenStatuses == {StatusOpen, StatusLimited}

\* the selection the filter is to make
Selected(f) ==
    /\ f.apply_status \in OpenStatuses
    /\ mode = "premium" => (Whole(f.discount_rt) < 0 /\ -Whole(f.discount_rt) >= Whole(min_premium))
    /\ mode = "discount" => (Whole(f.discount_rt) > 0 /\ Whole(f.discount_rt) >= Whole(min_premium))

\* the position in funds of the quote f
PosIn(fs, f) == CHOOSE j \in 1..Len(fs) : fs[j].fund_id = f.fund_id

Range(s) == {s[i] : i \in 1..Len(s)}

\* C6: the filter returns the selected quotes of its input and no others,
\* each once and in their input order; a divergence equal to the threshold
\* is selected; with threshold 0 in premium mode the result is the eligible
\* quotes of negative divergence.
C6_FilterExact ==
    pc = "filtered" =>
        /\ Range(opportunities) = {f \in Range(funds) : Selected(f)}
        /\ \A i, k \in 1..Len(opportunities) :
              i < k => PosIn(funds, opportunities[i]) < PosIn(funds, opportunities[k])
        /\ (mode = "premium" /\ min_premium = Dec(0, 0)) =>
              Range(opportunities) =
                 {f \in Range(funds) : f.apply_status \in OpenStatuses /\ Whole(f.discount_rt) < 0}

C6_Witness ==
    /\ pc = "filtered" /\ mode = "premium" /\ min_premium = Dec(1, 0)
    /\ Len(funds) = 3 /\ Len(opportunities) = 2
    /\ opportunities[1].discount_rt = Dec(-1, 0)
    /\ opportunities[2] = funds[3]

\* C7: whatever the mode and the threshold, every quote in the filter's
\* output has a status saying the channel is open or open with large
\* amounts limited; a quote with any other status is not in the output.
C7_StatusGate ==
    pc = "filtered" =>
        /\ \A i \in 1..Len(opportunities) : opportunities[i].apply_status \in OpenStatuses
        /\ \A j \in 1..Len(funds) :
              funds[j].apply_status \notin OpenStatuses => funds[j] \notin Range(opportunities)

C7_Witness ==
    /\ pc = "filtered" /\ min_premium = Dec(0, 0) /\ mode = "premium"
    /\ \E j \in 1..Len(funds) :
          /\ funds[j].apply_status = StatusSuspended
          /\ funds[j].discount_rt = Dec(-2, 0)
    /\ opportunities # <<>>

(***************************************************************************)
(* Properties of the ranking functions                                     *)
(***************************************************************************)
\* a metric value in tenths (the metrics ranked here carry one decimal at most)
Tenths(d) == d.m * Pow10(d.x + 1)

RankedBy == IF pc = "sorted_by_profit" THEN "profit" ELSE "profit_rate"

\* C8: the ranking functions return a permutation of their input that is
\* non-increasing in the metric when descending and non-decreasing
\* otherwise; entries of equal metric keep their input order in both
\* directions; the input list keeps its order.
C8_StableSort ==
    pc \in {"sorted_by_profit", "sorted_by_profit_rate"} =>
        /\ Len(ranked_out) = Len(ranked_in)
        /\ Range(ranked_out) = Range(ranked_in)
        /\ \A i, k \in 1..Len(ranked_out) :
              i < k =>
                 LET a == Key(ranked_out[i], RankedBy)
                     b == Key(ranked_out[k], RankedBy)
                 IN  /\ descending => Tenths(a) >= Tenths(b)
                     /\ ~descending => Tenths(a) <= Tenths(b)
                     /\ a = b => PosIn(ranked_in, ranked_out[i]) < PosIn(ranked_in, ranked_out[k])
        /\ \A i \in 1..Len(ranked_in) : ranked_in[i].fund_id = ToString(i)

C8_Witness ==
    /\ pc = "sorted_by_profit" /\ descending
    /\ Len(ranked_in) = 3
    /\ ranked_in[1].profit = Dec(1, 0) /\ ranked_in[2].profit = Dec(483, 0)
    /\ ranked_in[3].profit = Dec(1, 0)
    /\ ranked_out = <<ranked_in[2], ranked_in[1], ranked_in[3]>>

(***************************************************************************)
(* Properties of main's per-account loop                                   *)
(***************************************************************************)
Unset(f) ==
    /\ f.subscribe_fee_rate = None /\ f.profit = None
    /\ f.profit_rate = None /\ f.estimated_sell_price = None

\* the quote as it was before any evaluation
Pristine(f) == FundItem(f.fund_id, f.price, f.fund_nav, f.discount_rt, f.apply_fee, f.apply_status)

\* C1: at every point of main's loop (a) the computed fields of the shared
\* filtered quotes are unset, and (b) the result list of every account
\* processed so far holds, for each filtered quote, the profit that this
\* account's cost model alone gives it.
C1_AccountsIsolated ==
    /\ \A i \in 1..Len(opps) : Unset(heap[opps[i]])
    /\ \A k \in 1..Len(results) :
          /\ Len(results[k]) = Len(opps)
          /\ {heap[r].fund_id : r \in Range(results[k])} = {heap[r].fund_id : r \in Range(opps)}
          /\ \A i \in 1..Len(results[k]) :
                LET f == heap[results[k][i]]
                IN  f.profit = calculate_arbitrage_profit(Pristine(f), accounts[k], QUANTITY).fund.profit

C1_Witness ==
    /\ pc = "done" /\ Len(results) = 2 /\ Len(opps) = 2
    /\ \E i, j \in 1..Len(opps) :
          /\ heap[results[1][i]].fund_id = heap[results[2][j]].fund_id
          /\ heap[results[1][i]].profit # heap[results[2][j]].profit
====
